---- MODULE Spec2Model ----
(***************************************************************************)
(* A model of football.configs.FootballFieldConfiguration                  *)
(* (src/football/configs/configs.py): a dataclass of ten integer scalars,  *)
(* a computed property `vertices`, and three list attributes (edges,       *)
(* labels, colors) built by default factories.                             *)
(*                                                                         *)
(* Python values are modelled as follows.                                  *)
(*  - A number is a record [ty, num, den]: ty is "int" or "float" and      *)
(*    num/den is its value in lowest terms.  `a / b` on two ints is true   *)
(*    division and yields a float; the other operators the code uses       *)
(*    (plus, minus, times) map ints to ints.                               *)
(*  - A list is a cell of a heap, and an attribute that holds a list holds *)
(*    the address of its cell, so that aliasing is observable.             *)
(***************************************************************************)
EXTENDS Integers, Sequences, FiniteSets, TLC

\* ------------------------------------------------------------------ bounds

\* Number of instances constructed in one behaviour.
NumInstances == 2
\* Override / reassignment values tried besides the defaults: 1..MaxAlt.
MaxAlt == 1
\* Number of in-place list mutations explored in one behaviour.
MaxMutations == 2

Instances == 1..NumInstances
AltValues == 1..MaxAlt

\* ------------------------------------------------------------ Python numbers

Abs(n) == IF n < 0 THEN -n ELSE n

RECURSIVE GCD(_, _)
GCD(a, b) == IF b = 0 THEN a ELSE GCD(b, a % b)

\* A Python int.
PyInt(n) == [ty |-> "int", num |-> n, den |-> 1]

\* `a / b` for ints a and b > 0: a float whose value is the exact quotient
\* (exact in binary floating point for the divisor 2 used by the code).
TrueDiv(a, b) ==
    LET g == GCD(Abs(a), b)
    IN  [ty |-> "float", num |-> a \div g, den |-> b \div g]

\* Python's == on numbers compares values, whatever the types.
PyEq(x, y) == x.num * y.den = y.num * x.den

\* Python's == on 2-tuples of numbers.
PointEq(p, q) == PyEq(p[1], q[1]) /\ PyEq(p[2], q[2])

\* The value of the number is a whole number.
IsIntegral(x) == x.num % x.den = 0

\* ------------------------------------------------------------ the dataclass

ScalarNames ==
    {"width", "length", "end_zone_depth", "goal_line_1", "goal_line_2",
     "hash_distance_from_sideline", "hash_length", "yard_line_interval",
     "fifty_yard_line", "number_distance_from_sideline"}

ListNames == {"edges", "labels", "colors"}

\* A variant of the defaults with the second goal line on the back line.
DefaultScalarsGoalOnBackLine ==
    [width |-> 1920, length |-> 4320, end_zone_depth |-> 360,
     goal_line_1 |-> 360, goal_line_2 |-> 4320,
     hash_distance_from_sideline |-> 720, hash_length |-> 24,
     yard_line_interval |-> 180, fifty_yard_line |-> 2160,
     number_distance_from_sideline |-> 324]

\* A variant of the defaults with a narrower field.
DefaultScalarsNarrow ==
    [width |-> 1600, length |-> 4320, end_zone_depth |-> 360,
     goal_line_1 |-> 360, goal_line_2 |-> 3960,
     hash_distance_from_sideline |-> 720, hash_length |-> 24,
     yard_line_interval |-> 180, fifty_yard_line |-> 2160,
     number_distance_from_sideline |-> 324]

\* The defaults of the ten scalar fields.
DefaultScalars ==
    [width |-> 1920, length |-> 4320, end_zone_depth |-> 360,
     goal_line_1 |-> 360, goal_line_2 |-> 3960,
     hash_distance_from_sideline |-> 720, hash_length |-> 24,
     yard_line_interval |-> 180, fifty_yard_line |-> 2160,
     number_distance_from_sideline |-> 324]

\* A variant of the property that puts vertex 13 on the top hash line.
verticesTopHashTwice(o) ==
    << <<PyInt(0), PyInt(0)>>,
       <<PyInt(0), PyInt(o.width)>>,
       <<PyInt(o.length), PyInt(0)>>,
       <<PyInt(o.length), PyInt(o.width)>>,
       <<PyInt(o.goal_line_1), PyInt(0)>>,
       <<PyInt(o.goal_line_1), PyInt(o.width)>>,
       <<PyInt(o.goal_line_2), PyInt(0)>>,
       <<PyInt(o.goal_line_2), PyInt(o.width)>>,
       <<PyInt(o.fifty_yard_line), PyInt(0)>>,
       <<PyInt(o.fifty_yard_line), PyInt(o.width)>>,
       <<PyInt(o.fifty_yard_line), TrueDiv(o.width, 2)>>,
       <<PyInt(o.goal_line_1), PyInt(o.hash_distance_from_sideline)>>,
       <<PyInt(o.goal_line_1), PyInt(o.hash_distance_from_sideline)>>,
       <<PyInt(o.goal_line_2), PyInt(o.hash_distance_from_sideline)>>,
       <<PyInt(o.goal_line_2), PyInt(o.width - o.hash_distance_from_sideline)>>,
       <<PyInt(o.fifty_yard_line), PyInt(o.hash_distance_from_sideline)>>,
       <<PyInt(o.fifty_yard_line), PyInt(o.width - o.hash_distance_from_sideline)>>,
       <<PyInt(o.goal_line_1 + o.yard_line_interval * 2), PyInt(o.hash_distance_from_sideline)>>,
       <<PyInt(o.goal_line_1 + o.yard_line_interval * 2), PyInt(o.width - o.hash_distance_from_sideline)>>,
       <<PyInt(o.goal_line_1 + o.yard_line_interval * 4), PyInt(o.hash_distance_from_sideline)>>,
       <<PyInt(o.goal_line_1 + o.yard_line_interval * 4), PyInt(o.width - o.hash_distance_from_sideline)>>,
       <<PyInt(o.goal_line_1 + o.yard_line_interval * 6), PyInt(o.hash_distance_from_sideline)>>,
       <<PyInt(o.goal_line_1 + o.yard_line_interval * 6), PyInt(o.width - o.hash_distance_from_sideline)>>,
       <<PyInt(o.goal_line_2 - o.yard_line_interval * 6), PyInt(o.hash_distance_from_sideline)>>,
       <<PyInt(o.goal_line_2 - o.yard_line_interval * 6), PyInt(o.width - o.hash_distance_from_sideline)>>,
       <<PyInt(o.goal_line_2 - o.yard_line_interval * 4), PyInt(o.hash_distance_from_sideline)>>,
       <<PyInt(o.goal_line_2 - o.yard_line_interval * 4), PyInt(o.width - o.hash_distance_from_sideline)>>,
       <<PyInt(o.goal_line_2 - o.yard_line_interval * 2), PyInt(o.hash_distance_from_sideline)>>,
       <<PyInt(o.goal_line_2 - o.yard_line_interval * 2), PyInt(o.width - o.hash_distance_from_sideline)>>,
       <<PyInt(o.goal_line_1 + o.yard_line_interval * 2), PyInt(o.number_distance_from_sideline)>>,
       <<PyInt(o.goal_line_1 + o.yard_line_interval * 2), PyInt(o.width - o.number_distance_from_sideline)>>,
       <<PyInt(o.fifty_yard_line), PyInt(o.number_distance_from_sideline)>> >>

\* The property `vertices` of an instance o: a new list of 32 tuples.
vertices(o) ==
    << <<PyInt(0), PyInt(0)>>,
       <<PyInt(0), PyInt(o.width)>>,
       <<PyInt(o.length), PyInt(0)>>,
       <<PyInt(o.length), PyInt(o.width)>>,
       <<PyInt(o.goal_line_1), PyInt(0)>>,
       <<PyInt(o.goal_line_1), PyInt(o.width)>>,
       <<PyInt(o.goal_line_2), PyInt(0)>>,
       <<PyInt(o.goal_line_2), PyInt(o.width)>>,
       <<PyInt(o.fifty_yard_line), PyInt(0)>>,
       <<PyInt(o.fifty_yard_line), PyInt(o.width)>>,
       <<PyInt(o.fifty_yard_line), TrueDiv(o.width, 2)>>,
       <<PyInt(o.goal_line_1), PyInt(o.hash_distance_from_sideline)>>,
       <<PyInt(o.goal_line_1), PyInt(o.width - o.hash_distance_from_sideline)>>,
       <<PyInt(o.goal_line_2), PyInt(o.hash_distance_from_sideline)>>,
       <<PyInt(o.goal_line_2), PyInt(o.width - o.hash_distance_from_sideline)>>,
       <<PyInt(o.fifty_yard_line), PyInt(o.hash_distance_from_sideline)>>,
       <<PyInt(o.fifty_yard_line), PyInt(o.width - o.hash_distance_from_sideline)>>,
       <<PyInt(o.goal_line_1 + o.yard_line_interval * 2), PyInt(o.hash_distance_from_sideline)>>,
       <<PyInt(o.goal_line_1 + o.yard_line_interval * 2), PyInt(o.width - o.hash_distance_from_sideline)>>,
       <<PyInt(o.goal_line_1 + o.yard_line_interval * 4), PyInt(o.hash_distance_from_sideline)>>,
       <<PyInt(o.goal_line_1 + o.yard_line_interval * 4), PyInt(o.width - o.hash_distance_from_sideline)>>,
       <<PyInt(o.goal_line_1 + o.yard_line_interval * 6), PyInt(o.hash_distance_from_sideline)>>,
       <<PyInt(o.goal_line_1 + o.yard_line_interval * 6), PyInt(o.width - o.hash_distance_from_sideline)>>,
       <<PyInt(o.goal_line_2 - o.yard_line_interval * 6), PyInt(o.hash_distance_from_sideline)>>,
       <<PyInt(o.goal_line_2 - o.yard_line_interval * 6), PyInt(o.width - o.hash_distance_from_sideline)>>,
       <<PyInt(o.goal_line_2 - o.yard_line_interval * 4), PyInt(o.hash_distance_from_sideline)>>,
       <<PyInt(o.goal_line_2 - o.yard_line_interval * 4), PyInt(o.width - o.hash_distance_from_sideline)>>,
       <<PyInt(o.goal_line_2 - o.yard_line_interval * 2), PyInt(o.hash_distance_from_sideline)>>,
       <<PyInt(o.goal_line_2 - o.yard_line_interval * 2), PyInt(o.width - o.hash_distance_from_sideline)>>,
       <<PyInt(o.goal_line_1 + o.yard_line_interval * 2), PyInt(o.number_distance_from_sideline)>>,
       <<PyInt(o.goal_line_1 + o.yard_line_interval * 2), PyInt(o.width - o.number_distance_from_sideline)>>,
       <<PyInt(o.fifty_yard_line), PyInt(o.number_distance_from_sideline)>> >>

\* A variant of the edge literal whose last segment names a vertex 33.
DefaultEdgesOffByOne ==
    << <<1, 3>>, <<2, 4>>,
       <<1, 2>>, <<3, 4>>,
       <<5, 6>>, <<7, 8>>,
       <<9, 10>>,
       <<1, 5>>, <<2, 6>>, <<3, 7>>, <<4, 8>>,
       <<12, 13>>, <<14, 15>>, <<16, 17>>,
       <<18, 19>>, <<20, 21>>, <<22, 23>>,
       <<24, 25>>, <<26, 27>>, <<28, 29>>,
       <<5, 9>>, <<6, 10>>, <<9, 7>>, <<10, 33>> >>

\* The list literal of the default factory of `edges`.
DefaultEdges ==
    << <<1, 3>>, <<2, 4>>,
       <<1, 2>>, <<3, 4>>,
       <<5, 6>>, <<7, 8>>,
       <<9, 10>>,
       <<1, 5>>, <<2, 6>>, <<3, 7>>, <<4, 8>>,
       <<12, 13>>, <<14, 15>>, <<16, 17>>,
       <<18, 19>>, <<20, 21>>, <<22, 23>>,
       <<24, 25>>, <<26, 27>>, <<28, 29>>,
       <<5, 9>>, <<6, 10>>, <<9, 7>>, <<10, 8>> >>

\* The list literal of the default factory of `labels`.
DefaultLabels ==
    << "01", "02", "03", "04", "05", "06", "07", "08", "09", "10",
       "11", "12", "13", "14", "15", "16", "17", "18", "19", "20",
       "21", "22", "23", "24", "25", "26", "27", "28", "29", "30",
       "31", "32" >>

\* A variant of the color literal that lacks the last number-position color.
DefaultColorsShort ==
    << "#FF1493", "#FF1493", "#FF1493", "#FF1493",
       "#FF1493", "#FF1493", "#FF1493", "#FF1493",
       "#00BFFF", "#00BFFF", "#00BFFF",
       "#FF6347", "#FF6347", "#FF6347", "#FF6347", "#FF6347", "#FF6347",
       "#FF6347", "#FF6347", "#FF6347", "#FF6347", "#FF6347", "#FF6347",
       "#FF6347", "#FF6347", "#FF6347", "#FF6347", "#FF6347", "#FF6347",
       "#00BFFF", "#00BFFF" >>

\* The list literal of the default factory of `colors`.
DefaultColors ==
    << "#FF1493", "#FF1493", "#FF1493", "#FF1493",
       "#FF1493", "#FF1493", "#FF1493", "#FF1493",
       "#00BFFF", "#00BFFF", "#00BFFF",
       "#FF6347", "#FF6347", "#FF6347", "#FF6347", "#FF6347", "#FF6347",
       "#FF6347", "#FF6347", "#FF6347", "#FF6347", "#FF6347", "#FF6347",
       "#FF6347", "#FF6347", "#FF6347", "#FF6347", "#FF6347", "#FF6347",
       "#00BFFF", "#00BFFF", "#00BFFF" >>

\* The literal a default factory evaluates, by field.
DefaultLiteral(f) ==
    CASE f = "edges" -> DefaultEdges
      [] f = "labels" -> DefaultLabels
      [] f = "colors" -> DefaultColors

\* ------------------------------------------------------------------- state

VARIABLES
    objs,   \* the instances constructed so far, in order: each a record of
            \* its ten scalars and of the addresses of its three lists
    heap,   \* address -> contents of the list object at that address
    ret,    \* the latest call: the instance read and the list returned
            \* (NoReturn when the latest call returned no list)
    nmut    \* number of in-place list mutations performed so far

vars == <<objs, heap, ret, nmut>>

NoReturn == [inst |-> 0, val |-> <<>>]

Init ==
    /\ objs = <<>>
    /\ heap = <<>>
    /\ ret = NoReturn
    /\ nmut = 0

Constructed == DOMAIN objs

\* The contents of list attribute f of the instance bound to i.
ListOf(i, f) == heap[objs[i][f]]

\* Assigning scalar a of instance o keeps all scalars but at most one at
\* their default values: the configurations this model explores.
OthersAtDefault(o, a) ==
    \A b \in ScalarNames \ {a} : o[b] = DefaultScalars[b]

\* Keyword arguments of a constructor call: none, or one scalar.
NoOverrides == {}
Overrides == {NoOverrides} \cup {{<<a, v>>} : a \in ScalarNames, v \in AltValues}

\* The value __init__ gives scalar a under the keyword arguments ov.
InitScalar(ov, a) ==
    IF \E p \in ov : p[1] = a
    THEN (CHOOSE p \in ov : p[1] = a)[2]
    ELSE DefaultScalars[a]

\* A variant of the default factory that hands out the lists of the first
\* instance again instead of evaluating the literal anew.
SharedFactory(h, f) ==
    IF Len(h) >= Cardinality(ListNames)
    THEN [addr |-> CASE f = "edges" -> 1 [] f = "labels" -> 2 [] f = "colors" -> 3,
          heap |-> h]
    ELSE [addr |-> Len(h) + 1, heap |-> Append(h, DefaultLiteral(f))]

\* field(default_factory=lambda: [...]): each call evaluates the list
\* display, which allocates a new list object holding the literal.
DefaultFactory(h, f) ==
    [addr |-> Len(h) + 1, heap |-> Append(h, DefaultLiteral(f))]

\* i = FootballFieldConfiguration(**ov): the generated __init__ stores the
\* ten scalars, then calls the three default factories in field order.
\* Instances are numbered in the order of their construction.
Construct(i, ov) ==
    /\ i = Len(objs) + 1
    /\ LET e == DefaultFactory(heap, "edges")
           l == DefaultFactory(e.heap, "labels")
           c == DefaultFactory(l.heap, "colors")
           o == [a \in ScalarNames \cup ListNames |->
                    CASE a = "edges" -> e.addr
                      [] a = "labels" -> l.addr
                      [] a = "colors" -> c.addr
                      [] OTHER -> InitScalar(ov, a)]
       IN  /\ objs' = Append(objs, o)
           /\ heap' = c.heap
    /\ ret' = NoReturn
    /\ UNCHANGED nmut

\* A variant of the assignment that also empties the labels of the instance.
SetAttrResetsLabels(i, a, v) ==
    /\ i \in Constructed
    /\ OthersAtDefault(objs[i], a)
    /\ objs' = [objs EXCEPT ![i][a] = v]
    /\ heap' = [heap EXCEPT ![objs[i].labels] = <<>>]
    /\ ret' = NoReturn
    /\ UNCHANGED nmut

\* i.a = v for a scalar a: the dataclass is not frozen and validates nothing.
SetAttr(i, a, v) ==
    /\ i \in Constructed
    /\ OthersAtDefault(objs[i], a)
    /\ objs' = [objs EXCEPT ![i][a] = v]
    /\ ret' = NoReturn
    /\ UNCHANGED <<heap, nmut>>

\* A variant of the property that keeps the list it computed first.
ReadVerticesMemo(i) ==
    /\ i \in Constructed
    /\ ret' = [inst |-> i, val |-> IF ret.val # <<>> THEN ret.val ELSE vertices(objs[i])]
    /\ UNCHANGED <<objs, heap, nmut>>

\* i.vertices: the property getter computes the list from the current scalars.
ReadVertices(i) ==
    /\ i \in Constructed
    /\ ret' = [inst |-> i, val |-> vertices(objs[i])]
    /\ UNCHANGED <<objs, heap, nmut>>

\* ---------------------------------------------- in-place use of the lists

\* The element a caller writes into a list of field f.
NewElement(f) ==
    CASE f = "edges" -> <<11, 32>>
      [] f = "labels" -> "XX"
      [] f = "colors" -> "#000000"

\* The positions a caller writes or removes at: the first and the last.
Positions(s) == {1, Len(s)} \cap (1..Len(s))

RemoveAt(s, k) == [j \in 1..(Len(s) - 1) |-> IF j < k THEN s[j] ELSE s[j + 1]]

\* i.f.append(x)
ListAppend(i, f) ==
    /\ i \in Constructed
    /\ nmut < MaxMutations
    /\ heap' = [heap EXCEPT ![objs[i][f]] = Append(@, NewElement(f))]
    /\ nmut' = nmut + 1
    /\ ret' = NoReturn
    /\ UNCHANGED objs

\* i.f[k] = x
ListSetItem(i, f, k) ==
    /\ i \in Constructed
    /\ nmut < MaxMutations
    /\ k \in Positions(ListOf(i, f))
    /\ heap' = [heap EXCEPT ![objs[i][f]] = [@ EXCEPT ![k] = NewElement(f)]]
    /\ nmut' = nmut + 1
    /\ ret' = NoReturn
    /\ UNCHANGED objs

\* del i.f[k]
ListDelItem(i, f, k) ==
    /\ i \in Constructed
    /\ nmut < MaxMutations
    /\ k \in Positions(ListOf(i, f))
    /\ heap' = [heap EXCEPT ![objs[i][f]] = RemoveAt(@, k)]
    /\ nmut' = nmut + 1
    /\ ret' = NoReturn
    /\ UNCHANGED objs

\* ---------------------------------------------------------- specifications

\* Construction with keyword arguments, reassignment of scalars, reads.
Next ==
    \E i \in Instances :
        \/ \E ov \in Overrides : Construct(i, ov)
        \/ \E a \in ScalarNames : \E v \in AltValues \cup {DefaultScalars[a]} :
              SetAttr(i, a, v)
        \/ ReadVertices(i)

Spec == Init /\ [][Next]_vars

\* Default construction and in-place mutation of the list attributes.
NextLists ==
    \E i \in Instances :
        \/ Construct(i, NoOverrides)
        \/ \E f \in ListNames : ListAppend(i, f)
        \/ \E f \in ListNames : \E k \in 1..(Len(DefaultLiteral(f)) + MaxMutations) :
              ListSetItem(i, f, k)
        \/ \E f \in ListNames : \E k \in 1..(Len(DefaultLiteral(f)) + MaxMutations) :
              ListDelItem(i, f, k)

SpecLists == Init /\ [][NextLists]_vars

\* ------------------------------------------------------------- properties

\* Two instances agree on all ten scalars.
SameScalars(o1, o2) == \A a \in ScalarNames : o1[a] = o2[a]

\* Two instances agree on every scalar but width, where they differ.
DifferOnlyInWidth(o1, o2) ==
    /\ o1.width # o2.width
    /\ \A a \in ScalarNames \ {"width"} : o1[a] = o2[a]

\* Python's < on numbers.
PyLess(x, y) == x.num * y.den < y.num * x.den

\* C1: every constructed instance, whatever its scalars and however they
\* were reassigned, has 32 vertices, 32 labels and 32 colors.
C1_Lengths ==
    /\ \A i \in Constructed :
          /\ Len(vertices(objs[i])) = 32
          /\ Len(ListOf(i, "labels")) = 32
          /\ Len(ListOf(i, "colors")) = 32
    /\ ret # NoReturn => Len(ret.val) = 32

\* An instance with a scalar off its default has been read.
C1_Witness ==
    \E i \in Constructed :
        /\ ~SameScalars(objs[i], DefaultScalars)
        /\ ret.inst = i

\* C2: every pair of the default edges has both members in 1..32, a valid
\* position in vertices, and the pairs (9, 10) and (1, 3) are among them.
C2_EdgesInRange ==
    \A i \in Constructed :
        LET e == ListOf(i, "edges")
            n == Len(vertices(objs[i]))
        IN  /\ n = 32
            /\ \A k \in 1..Len(e) : e[k][1] \in 1..n /\ e[k][2] \in 1..n
            /\ \E k \in 1..Len(e) : e[k] = <<9, 10>>
            /\ \E k \in 1..Len(e) : e[k] = <<1, 3>>

\* An instance holds the 24 default edges.
C2_Witness ==
    \E i \in Constructed : Len(ListOf(i, "edges")) = 24

\* The 32 points the formulas give at the default scalars, worked out by hand.
ExpectedDefaultVertices ==
    << <<0, 0>>, <<0, 1920>>, <<4320, 0>>, <<4320, 1920>>,
       <<360, 0>>, <<360, 1920>>, <<3960, 0>>, <<3960, 1920>>,
       <<2160, 0>>, <<2160, 1920>>, <<2160, 960>>,
       <<360, 720>>, <<360, 1200>>, <<3960, 720>>, <<3960, 1200>>,
       <<2160, 720>>, <<2160, 1200>>,
       <<720, 720>>, <<720, 1200>>, <<1080, 720>>, <<1080, 1200>>,
       <<1440, 720>>, <<1440, 1200>>,
       <<2880, 720>>, <<2880, 1200>>, <<3240, 720>>, <<3240, 1200>>,
       <<3600, 720>>, <<3600, 1200>>,
       <<720, 324>>, <<720, 1596>>, <<2160, 324>> >>

\* The list v equals (Python ==) the list of integer points e.
EqualsIntPoints(v, e) ==
    /\ Len(v) = Len(e)
    /\ \A k \in 1..Len(v) : PointEq(v[k], <<PyInt(e[k][1]), PyInt(e[k][2])>>)

\* C3: an instance with all scalars at their defaults has exactly the 32
\* vertices the formulas give there; vertex 1 is (0, 0), vertex 9 is
\* (2160, 0) and vertex 11 is (2160, 960).
C3_DefaultVertices ==
    \A i \in Constructed :
        SameScalars(objs[i], DefaultScalars) =>
            LET v == vertices(objs[i])
            IN  /\ Len(v) = 32
                /\ EqualsIntPoints(v, ExpectedDefaultVertices)
                /\ PointEq(v[1], <<PyInt(0), PyInt(0)>>)
                /\ PointEq(v[9], <<PyInt(2160), PyInt(0)>>)
                /\ PointEq(v[11], <<PyInt(2160), PyInt(960)>>)

\* A default instance has been read.
C3_Witness ==
    \E i \in Constructed :
        /\ SameScalars(objs[i], DefaultScalars)
        /\ ret.inst = i

\* Vertex k of the two instances is equal (Python ==).
SameVertex(o1, o2, k) == PointEq(vertices(o1)[k], vertices(o2)[k])

\* C4 as claimed: between two instances that differ only in width, vertices
\* 2, 4, 6, 8, 10 and 11 to 17 all differ and vertices 1, 3, 5, 7 are equal.
C4_Original ==
    \A i, j \in Constructed :
        DifferOnlyInWidth(objs[i], objs[j]) =>
            /\ \A k \in {2, 4, 6, 8, 10, 11, 12, 13, 14, 15, 16, 17} :
                  ~SameVertex(objs[i], objs[j], k)
            /\ \A k \in {1, 3, 5, 7} : SameVertex(objs[i], objs[j], k)

\* C4 as amended: between two instances that differ only in width, vertices
\* 2, 4, 6, 8, 10, 11, 13, 15 and 17 all differ, and vertices 1, 3, 5, 7 and
\* the top-hash vertices 12, 14 and 16 are equal.
C4_Amended ==
    \A i, j \in Constructed :
        DifferOnlyInWidth(objs[i], objs[j]) =>
            /\ \A k \in {2, 4, 6, 8, 10, 11, 13, 15, 17} :
                  ~SameVertex(objs[i], objs[j], k)
            /\ \A k \in {1, 3, 5, 7, 12, 14, 16} : SameVertex(objs[i], objs[j], k)

\* Two instances that differ only in width exist.
C4_Witness ==
    \E i, j \in Constructed : DifferOnlyInWidth(objs[i], objs[j])

\* C5: whatever the scalars given at construction or assigned later, the
\* edges, labels and colors of an instance are the default literals.
C5_ListsAreLiterals ==
    \A i \in Constructed :
        /\ ListOf(i, "edges") = DefaultEdges
        /\ ListOf(i, "labels") = DefaultLabels
        /\ ListOf(i, "colors") = DefaultColors

\* Two instances exist whose scalars are off their defaults, and differ.
C5_Witness ==
    \E i, j \in Constructed :
        /\ ~SameScalars(objs[i], DefaultScalars)
        /\ ~SameScalars(objs[j], DefaultScalars)
        /\ ~SameScalars(objs[i], objs[j])

\* C6: every coordinate of every vertex is a whole number, for every choice
\* of integer scalars (stated on the values; the types are not required to
\* be int).
C6_IntegerCoordinates ==
    \A i \in Constructed :
        \A k \in 1..Len(vertices(objs[i])) :
            /\ IsIntegral(vertices(objs[i])[k][1])
            /\ IsIntegral(vertices(objs[i])[k][2])

\* The constraints section 3 of the specification lists for the scalars.
ScalarConstraints(o) ==
    /\ \A a \in ScalarNames : o[a] >= 0
    /\ o.goal_line_1 < o.fifty_yard_line
    /\ o.fifty_yard_line < o.goal_line_2
    /\ o.goal_line_2 < o.length
    /\ PyLess(PyInt(o.hash_distance_from_sideline), TrueDiv(o.width, 2))

\* C7 as claimed: every constructed instance satisfies the constraints.
C7_Original ==
    \A i \in Constructed : ScalarConstraints(objs[i])

\* C7 as amended: every instance whose ten scalars all have their default
\* values satisfies the constraints.
C7_Amended ==
    \A i \in Constructed :
        SameScalars(objs[i], DefaultScalars) => ScalarConstraints(objs[i])

\* An instance with all scalars at their defaults exists beside one with an
\* override.
C7_Witness ==
    \E i, j \in Constructed :
        /\ SameScalars(objs[i], DefaultScalars)
        /\ ~SameScalars(objs[j], DefaultScalars)

\* C8: what a read of vertices returns is the list every instance with the
\* same scalars has, and the read changes no attribute of any instance and
\* no list.
C8_PureRead ==
    /\ [](ret # NoReturn =>
            \A j \in Constructed :
                SameScalars(objs[ret.inst], objs[j]) => ret.val = vertices(objs[j]))
    /\ [][\A i \in Instances : ReadVertices(i) => (objs' = objs /\ heap' = heap)]_vars

\* Two instances constructed with the same override; the second is read.
C8_Witness ==
    /\ Len(objs) >= 2
    /\ objs[1].width # DefaultScalars.width
    /\ SameScalars(objs[1], objs[2])
    /\ ret.inst = 2

\* Units per yard: the scale of every default.
UnitsPerYard == 36

\* C9: with default scalars and yards counted from x = 0, vertices 18 to 23
\* lie on the 20, 30 and 40 yard lines and vertices 24 to 29 on the 60, 70
\* and 80 yard lines, as the comments of the code name them.
C9_YardLines ==
    \A i \in Constructed :
        SameScalars(objs[i], DefaultScalars) =>
            LET v == vertices(objs[i])
                OnYardLine(k, y) == PyEq(v[k][1], PyInt(y * UnitsPerYard))
            IN  /\ OnYardLine(18, 20) /\ OnYardLine(19, 20)
                /\ OnYardLine(20, 30) /\ OnYardLine(21, 30)
                /\ OnYardLine(22, 40) /\ OnYardLine(23, 40)
                /\ OnYardLine(24, 60) /\ OnYardLine(25, 60)
                /\ OnYardLine(26, 70) /\ OnYardLine(27, 70)
                /\ OnYardLine(28, 80) /\ OnYardLine(29, 80)

\* Some in-place mutation of a list of instance i.
Mutates(i) ==
    \E f \in ListNames :
        \/ ListAppend(i, f)
        \/ \E k \in 1..(Len(DefaultLiteral(f)) + MaxMutations) :
              ListSetItem(i, f, k) \/ ListDelItem(i, f, k)

\* C10: an in-place mutation of a list of one instance leaves the lists of
\* every other instance as they were, and a construction yields an instance
\* whose lists are the default literals and leaves the others' lists as they
\* were.
C10_OwnLists ==
    [][\A i \in Instances :
          /\ Mutates(i) =>
                \A j \in Constructed \ {i} :
                    \A f \in ListNames : heap'[objs'[j][f]] = heap[objs[j][f]]
          /\ Construct(i, NoOverrides) =>
                /\ \A f \in ListNames : heap'[objs'[i][f]] = DefaultLiteral(f)
                /\ \A j \in Constructed :
                      \A f \in ListNames : heap'[objs'[j][f]] = heap[objs[j][f]]
      ]_vars

\* Two lists of the first instance were mutated, and the second instance
\* has the default literals.
C10_Witness ==
    /\ Len(objs) >= 2
    /\ nmut = MaxMutations
    /\ ListOf(1, "edges") # DefaultEdges
    /\ ListOf(1, "labels") # DefaultLabels
    /\ \A f \in ListNames : ListOf(2, f) = DefaultLiteral(f)
====
